---- MODULE Spec2Model ----
(***************************************************************************)
(* Model of bookmark-checker-rs: the bookmark tree traversals (parser.rs,  *)
(* cleaner.rs), the concurrent verification engine (checker.rs,            *)
(* progress.rs), the failure report (report.rs) and the cleanup flow       *)
(* (cleaner.rs).                                                           *)
(***************************************************************************)
EXTENDS Integers, Sequences, FiniteSets, TLC

VARIABLES
    pc,         \* position of the modelled call
    tree0,      \* the tree handed to the call (serde_json::Value)
    targets,    \* HashSet<String> of urls to remove
    data,       \* the tree being mutated in place
    removed,    \* count returned by the last remove_targets call
    collected,  \* Vec<Bookmark> produced by extract_bookmarks
    before,     \* the tree as it was when the last remove_targets call began
    report_file,    \* the YAML report at report_path
    bookmarks_file, \* the file at location.file
    file0,          \* the file at location.file when clean_failures was called
    backup_file,    \* the file at backup_path
    result,         \* what the modelled call returned
    bookmarks,  \* the leaves handed to check_bookmarks
    client,     \* the shared reqwest client and how often it was built
    reporter,   \* ProgressReporter: overall bar and one message per worker
    workers,    \* per pool thread: its position in the map_init closure
    leaves,     \* per input leaf: dispatch state, response, closure result
    failures,   \* the collected Vec<LinkFailure>
    verdict,    \* what check_bookmarks returned
    report,     \* the FailureReport built from the failures
    call        \* the last call made on a ProgressHandle from outside a run

tree_vars == <<tree0, targets, data, removed, collected, before>>
clean_vars == <<report_file, bookmarks_file, file0, backup_file, result>>
verify_vars == <<bookmarks, client, reporter, workers, leaves, failures,
                 verdict, report, call>>
vars == <<pc, tree_vars, clean_vars, verify_vars>>

(***************************************************************************)
(* serde_json::Value.  Every value is a record of one shape: k is the      *)
(* variant, s the payload of a string, items the elements of an array or   *)
(* the (key, value) entries of an object in map iteration order.           *)
(***************************************************************************)
Null == [k |-> "null", s |-> "", items |-> <<>>]
Str(s) == [k |-> "str", s |-> s, items |-> <<>>]
Array(xs) == [k |-> "arr", s |-> "", items |-> xs]
Object(es) == [k |-> "obj", s |-> "", items |-> es]
Entry(key, val) == [key |-> key, val |-> val]

\* Map::get(key).is_some()
contains_key(map, key) == \E i \in 1..Len(map) : map[i].key = key

\* Map::get(key), for a key the map holds
map_get(map, key) == map[CHOOSE i \in 1..Len(map) : map[i].key = key].val

\* map.get(key).and_then(Value::as_str).is_some()
has_str(map, key) == contains_key(map, key) /\ map_get(map, key).k = "str"

\* map.get("type").and_then(Value::as_str) == Some("url")
type_is_url(map) == has_str(map, "type") /\ map_get(map, "type").s = "url"

\* mutant of vec_remove: Vec::swap_remove, the last element fills the hole
vec_swap_remove(v, index) ==
    IF index = Len(v)
    THEN SubSeq(v, 1, Len(v) - 1)
    ELSE SubSeq([v EXCEPT ![index] = v[Len(v)]], 1, Len(v) - 1)

\* Vec::remove(index), index counted from 1
vec_remove(v, index) == SubSeq(v, 1, index - 1) \o SubSeq(v, index + 1, Len(v))

Range(f) == {f[i] : i \in DOMAIN f}

(***************************************************************************)
(* cleaner.rs: remove_targets / remove_node                                *)
(***************************************************************************)
RECURSIVE remove_node(_, _), remove_elements(_, _, _, _), remove_fields(_, _, _, _, _)

\* mutant of is_target: the membership test on targets is left out
is_target_any_url(node, tgts) ==
    /\ node.k = "obj"
    /\ type_is_url(node.items)
    /\ has_str(node.items, "url")

\* the leaf test at the head of the Object arm
is_target(node, tgts) ==
    /\ node.k = "obj"
    /\ type_is_url(node.items)
    /\ has_str(node.items, "url")
    /\ map_get(node.items, "url").s \in tgts

\* mutant of remove_elements: the index also advances after a removal
remove_elements_skipping(array, index, count, tgts) ==
    IF index > Len(array)
    THEN [items |-> array, removed |-> count]
    ELSE LET r == remove_node(array[index], tgts)
         IN  IF r.should_remove
             THEN remove_elements(vec_remove(array, index), index + 1,
                                  count + r.removed, tgts)
             ELSE remove_elements([array EXCEPT ![index] = r.node], index + 1,
                                  count + r.removed, tgts)

\* mutant of remove_elements: only the removed elements themselves are counted
remove_elements_own_count(array, index, count, tgts) ==
    IF index > Len(array)
    THEN [items |-> array, removed |-> count]
    ELSE LET r == remove_node(array[index], tgts)
         IN  IF r.should_remove
             THEN remove_elements(vec_remove(array, index), index,
                                  count + 1, tgts)
             ELSE remove_elements([array EXCEPT ![index] = r.node], index + 1,
                                  count, tgts)

\* the compacting index loop over a Vec<Value>
remove_elements(array, index, count, tgts) ==
    IF index > Len(array)
    THEN [items |-> array, removed |-> count]
    ELSE LET r == remove_node(array[index], tgts)
         IN  IF r.should_remove
             THEN remove_elements(vec_remove(array, index), index,
                                  count + r.removed, tgts)
             ELSE remove_elements([array EXCEPT ![index] = r.node], index + 1,
                                  count + r.removed, tgts)

\* the loop over map.iter_mut() that skips "children" and gathers keys_to_remove
\* mutant of remove_fields: the fields other than children are not processed
remove_fields_not_entered(map, i, count, keys_to_remove, tgts) ==
    [map |-> map, removed |-> count, keys_to_remove |-> keys_to_remove]

remove_fields(map, i, count, keys_to_remove, tgts) ==
    IF i > Len(map)
    THEN [map |-> map, removed |-> count, keys_to_remove |-> keys_to_remove]
    ELSE IF map[i].key = "children"
    THEN remove_fields(map, i + 1, count, keys_to_remove, tgts)
    ELSE LET r == remove_node(map[i].val, tgts)
         IN  remove_fields([map EXCEPT ![i].val = r.node], i + 1,
                           count + r.removed,
                           IF r.should_remove
                           THEN Append(keys_to_remove, map[i].key)
                           ELSE keys_to_remove,
                           tgts)

\* the children block of the Object arm: only an array-valued "children" is walked
remove_children(map, tgts) ==
    IF contains_key(map, "children") /\ map_get(map, "children").k = "arr"
    THEN LET c == remove_elements(map_get(map, "children").items, 1, 0, tgts)
         IN  [map |-> [i \in 1..Len(map) |->
                          IF map[i].key = "children"
                          THEN Entry("children", Array(c.items))
                          ELSE map[i]],
              removed |-> c.removed]
    ELSE [map |-> map, removed |-> 0]

remove_node(node, tgts) ==
    IF node.k = "obj"
    THEN IF is_target(node, tgts)
         THEN [node |-> node, removed |-> 1, should_remove |-> TRUE]
         ELSE LET c == remove_children(node.items, tgts)
                  f == remove_fields(c.map, 1, c.removed, <<>>, tgts)
                  kept == SelectSeq(f.map,
                              LAMBDA e : e.key \notin Range(f.keys_to_remove))
              IN  [node |-> Object(kept), removed |-> f.removed,
                   should_remove |-> FALSE]
    ELSE IF node.k = "arr"
    THEN LET a == remove_elements(node.items, 1, 0, tgts)
         IN  [node |-> Array(a.items), removed |-> a.removed,
              should_remove |-> FALSE]
    ELSE [node |-> node, removed |-> 0, should_remove |-> FALSE]

\* mutant of remove_targets: the flag of the root is honoured
remove_targets_dropping_root(root, tgts) ==
    LET r == remove_node(root, tgts)
    IN  [root |-> IF r.should_remove THEN Null ELSE r.node, removed |-> r.removed]

remove_targets(root, tgts) ==
    LET r == remove_node(root, tgts)
    IN  [root |-> r.node, removed |-> r.removed]

(***************************************************************************)
(* parser.rs: extract_bookmarks / collect_nodes                            *)
(***************************************************************************)
Bookmark(name, url) == [name |-> name, url |-> url]

RECURSIVE collect_nodes(_, _), collect_elements(_, _, _), collect_fields(_, _, _)

\* for child in children / for value in array
collect_elements(array, i, acc) ==
    IF i > Len(array)
    THEN acc
    ELSE collect_elements(array, i + 1, collect_nodes(array[i], acc))

\* mutant of collect_fields: the other fields are not entered
collect_fields_not_entered(map, i, acc) == acc

\* for (key, value) in object, skipping "children"
collect_fields(map, i, acc) ==
    IF i > Len(map)
    THEN acc
    ELSE IF map[i].key = "children"
    THEN collect_fields(map, i + 1, acc)
    ELSE collect_fields(map, i + 1, collect_nodes(map[i].val, acc))

\* mutant of collect_nodes: the leaf is pushed after the descent
collect_nodes_post_order(node, acc) ==
    IF node.k = "obj"
    THEN LET map == node.items
             kids == IF /\ contains_key(map, "children")
                        /\ map_get(map, "children").k = "arr"
                     THEN collect_elements(map_get(map, "children").items, 1, acc)
                     ELSE acc
             below == collect_fields(map, 1, kids)
         IN  IF /\ type_is_url(map)
                /\ has_str(map, "name")
                /\ has_str(map, "url")
             THEN Append(below, Bookmark(map_get(map, "name").s,
                                         map_get(map, "url").s))
             ELSE below
    ELSE IF node.k = "arr"
    THEN collect_elements(node.items, 1, acc)
    ELSE acc

\* mutant of collect_nodes: every field is visited in map order, children
\* among them
collect_nodes_map_order(node, acc) ==
    IF node.k = "obj"
    THEN LET map == node.items
             own == IF /\ type_is_url(map)
                       /\ has_str(map, "name")
                       /\ has_str(map, "url")
                    THEN Append(acc, Bookmark(map_get(map, "name").s,
                                              map_get(map, "url").s))
                    ELSE acc
             as_fields == [i \in 1..Len(map) |->
                              IF map[i].key = "children" /\ map[i].val.k = "arr"
                              THEN Entry("elements", map[i].val)
                              ELSE map[i]]
         IN  collect_fields(as_fields, 1, own)
    ELSE IF node.k = "arr"
    THEN collect_elements(node.items, 1, acc)
    ELSE acc

collect_nodes(node, acc) ==
    IF node.k = "obj"
    THEN LET map == node.items
             own == IF /\ type_is_url(map)
                       /\ has_str(map, "name")
                       /\ has_str(map, "url")
                    THEN Append(acc, Bookmark(map_get(map, "name").s,
                                              map_get(map, "url").s))
                    ELSE acc
             kids == IF /\ contains_key(map, "children")
                        /\ map_get(map, "children").k = "arr"
                     THEN collect_elements(map_get(map, "children").items, 1, own)
                     ELSE own
         IN  collect_fields(map, 1, kids)
    ELSE IF node.k = "arr"
    THEN collect_elements(node.items, 1, acc)
    ELSE acc

extract_bookmarks(value) == collect_nodes(value, <<>>)

(***************************************************************************)
(* cleaner.rs: the files clean_failures reads and writes, the report it    *)
(* parses and its result                                                   *)
(***************************************************************************)
\* a file holding JSON text: the value it parses to and its layout ("pretty"
\* is the exact output of to_string_pretty, "found" any other layout); a
\* file whose text is not JSON; a file whose bytes are not text (fs::copy
\* copies it, fs::read_to_string fails on it); no file
JsonFile(fmt, value) == [state |-> "json", fmt |-> fmt, value |-> value]
BadFile == [state |-> "garbage", fmt |-> "found", value |-> Null]
NonTextFile == [state |-> "binary", fmt |-> "found", value |-> Null]
NoFile == [state |-> "none", fmt |-> "found", value |-> Null]

\* serde_json::to_string_pretty(&data)
to_string_pretty(value) == JsonFile("pretty", value)

\* FailureEntry { url: Option<String> }
FailureEntry(has_url, url) == [has_url |-> has_url, url |-> url]

\* a sequence of the YAML report, or the key left out of the document
ReportSeq(present, entries) == [present |-> present, entries |-> entries]

\* the YAML report: a document with up to three sequences, text that does not
\* parse, a path that exists and cannot be read as text (a directory, bytes
\* that are not UTF-8), or no file
ReportDoc(nf, un, ce) ==
    [state |-> "yaml", not_found |-> nf, unauthorized |-> un,
     connection_errors |-> ce]
BadReport ==
    [state |-> "garbage", not_found |-> ReportSeq(FALSE, <<>>),
     unauthorized |-> ReportSeq(FALSE, <<>>),
     connection_errors |-> ReportSeq(FALSE, <<>>)]
UnreadableReport ==
    [state |-> "unreadable", not_found |-> ReportSeq(FALSE, <<>>),
     unauthorized |-> ReportSeq(FALSE, <<>>),
     connection_errors |-> ReportSeq(FALSE, <<>>)]
NoReport ==
    [state |-> "none", not_found |-> ReportSeq(FALSE, <<>>),
     unauthorized |-> ReportSeq(FALSE, <<>>),
     connection_errors |-> ReportSeq(FALSE, <<>>)]

\* serde_yaml::from_str into FailureReport: #[serde(default)] on every field
FailureReport(doc) ==
    LET field(f) == IF f.present THEN f.entries ELSE <<>>
    IN  [not_found |-> field(doc.not_found),
         unauthorized |-> field(doc.unauthorized),
         connection_errors |-> field(doc.connection_errors)]

\* mutant of into_targets: connection_errors is left out of the chain
into_targets_without_connection_errors(self) ==
    LET chained == self.not_found \o self.unauthorized
    IN  {chained[i].url : i \in {j \in 1..Len(chained) : chained[j].has_url}}

\* FailureReport::into_targets
into_targets(self) ==
    LET chained == self.not_found \o self.unauthorized
                     \o self.connection_errors
    IN  {chained[i].url : i \in {j \in 1..Len(chained) : chained[j].has_url}}

\* Result<CleanupResult, BookmarkError>
NoResult == [tag |-> "none", removed |-> 0, backup_path |-> "None", err |-> ""]
OkResult(n, path) == [tag |-> "Ok", removed |-> n, backup_path |-> path, err |-> ""]
ErrResult(e) == [tag |-> "Err", removed |-> 0, backup_path |-> "None", err |-> e]

\* CleanupResult::default()
DefaultResult == OkResult(0, "None")

\* the path create_backup returns
BackupPath == "Bookmarks-<timestamp>.bak"

\* mutant of write_needed: the file is rewritten whatever the count
write_always(n) == n >= 0

\* if removed > 0
write_needed(n) == n > 0

(***************************************************************************)
(* checker.rs, progress.rs, report.rs: the verification engine             *)
(***************************************************************************)
\* StatusCode::NOT_FOUND
NOT_FOUND == 404

\* FailureKind, read by report.rs:52 as failure.kind.  The checker.rs at hand
\* declares no kind; the kind of a record follows the specification: Not
\* Found status, Unauthorized/Forbidden status, transport failure.
status_kind(status) ==
    IF status = NOT_FOUND THEN "NotFound"
    ELSE IF status \in {401, 403} THEN "Unauthorized"
    ELSE "Unclassified"
error_kind == "Connection"

\* StatusCode::canonical_reason().unwrap_or("Unknown")
canonical_reason(status) ==
    CASE status = 100 -> "Continue"
      [] status = 101 -> "Switching Protocols"
      [] status = 102 -> "Processing"
      [] status = 103 -> "Early Hints"
      [] status = 200 -> "OK"
      [] status = 201 -> "Created"
      [] status = 202 -> "Accepted"
      [] status = 203 -> "Non Authoritative Information"
      [] status = 204 -> "No Content"
      [] status = 205 -> "Reset Content"
      [] status = 206 -> "Partial Content"
      [] status = 207 -> "Multi-Status"
      [] status = 208 -> "Already Reported"
      [] status = 226 -> "IM Used"
      [] status = 300 -> "Multiple Choices"
      [] status = 301 -> "Moved Permanently"
      [] status = 302 -> "Found"
      [] status = 303 -> "See Other"
      [] status = 304 -> "Not Modified"
      [] status = 305 -> "Use Proxy"
      [] status = 307 -> "Temporary Redirect"
      [] status = 308 -> "Permanent Redirect"
      [] status = 400 -> "Bad Request"
      [] status = 401 -> "Unauthorized"
      [] status = 402 -> "Payment Required"
      [] status = 403 -> "Forbidden"
      [] status = 404 -> "Not Found"
      [] status = 405 -> "Method Not Allowed"
      [] status = 406 -> "Not Acceptable"
      [] status = 407 -> "Proxy Authentication Required"
      [] status = 408 -> "Request Timeout"
      [] status = 409 -> "Conflict"
      [] status = 410 -> "Gone"
      [] status = 411 -> "Length Required"
      [] status = 412 -> "Precondition Failed"
      [] status = 413 -> "Payload Too Large"
      [] status = 414 -> "URI Too Long"
      [] status = 415 -> "Unsupported Media Type"
      [] status = 416 -> "Range Not Satisfiable"
      [] status = 417 -> "Expectation Failed"
      [] status = 418 -> "I'm a teapot"
      [] status = 421 -> "Misdirected Request"
      [] status = 422 -> "Unprocessable Entity"
      [] status = 423 -> "Locked"
      [] status = 424 -> "Failed Dependency"
      [] status = 425 -> "Too Early"
      [] status = 426 -> "Upgrade Required"
      [] status = 428 -> "Precondition Required"
      [] status = 429 -> "Too Many Requests"
      [] status = 431 -> "Request Header Fields Too Large"
      [] status = 451 -> "Unavailable For Legal Reasons"
      [] status = 500 -> "Internal Server Error"
      [] status = 501 -> "Not Implemented"
      [] status = 502 -> "Bad Gateway"
      [] status = 503 -> "Service Unavailable"
      [] status = 504 -> "Gateway Timeout"
      [] status = 505 -> "HTTP Version Not Supported"
      [] status = 506 -> "Variant Also Negotiates"
      [] status = 507 -> "Insufficient Storage"
      [] status = 508 -> "Loop Detected"
      [] status = 510 -> "Not Extended"
      [] status = 511 -> "Network Authentication Required"
      [] OTHER -> "Unknown"

\* Option<LinkFailure>
NoFailure == [some |-> FALSE, bookmark |-> Bookmark("", ""), reason |-> "", kind |-> ""]
SomeFailure(bookmark, reason, kind) ==
    [some |-> TRUE, bookmark |-> bookmark, reason |-> reason, kind |-> kind]

\* mutant of from_status: the reason phrase is left out
from_status_code_only(bookmark, status) ==
    SomeFailure(bookmark, "HTTP " \o ToString(status), status_kind(status))

\* LinkFailure::from_status
from_status(bookmark, status) ==
    SomeFailure(bookmark,
                "HTTP " \o ToString(status) \o " " \o canonical_reason(status),
                status_kind(status))

\* mutant of from_error: the error is not part of the reason
from_error_bare(bookmark, err) ==
    SomeFailure(bookmark, "Request failed", error_kind)

\* LinkFailure::from_error
from_error(bookmark, err) ==
    SomeFailure(bookmark, "Request failed: " \o err, error_kind)

\* what client.get(url).send() returns: a response with a status, or an error
Response(status) == [ok |-> TRUE, status |-> status, err |-> ""]
TransportError(err) == [ok |-> FALSE, status |-> 0, err |-> err]
NoResponse == [ok |-> FALSE, status |-> 0, err |-> ""]

\* mutant of check_single: every error status is reported
check_single_error_statuses(bookmark, sent) ==
    IF sent.ok
    THEN IF sent.status >= 400
         THEN from_status(bookmark, sent.status)
         ELSE NoFailure
    ELSE from_error(bookmark, sent.err)

\* check_single, given what send() returned
check_single(bookmark, sent) ==
    IF sent.ok
    THEN IF sent.status = NOT_FOUND
         THEN from_status(bookmark, sent.status)
         ELSE NoFailure
    ELSE from_error(bookmark, sent.err)

\* mutant of is_empty: the fast path is never taken
never_empty(leafs) == FALSE

\* bookmarks.is_empty()
is_empty(leafs) == Len(leafs) = 0

\* ProgressReporter::new(total, worker_count, label): position 0, every
\* worker bar "idle"
ProgressReporter_new(total, worker_count) ==
    [state |-> "live", total |-> total, position |-> 0,
     messages |-> [idx \in 0..(worker_count - 1) |-> "idle"],
     finishes |-> 0]
NoReporter ==
    [state |-> "none", total |-> 0, position |-> 0,
     messages |-> [idx \in {} |-> "idle"], finishes |-> 0]

\* a call on a ProgressHandle: the method and its arguments
NoCall == [op |-> "none", idx |-> 0, message |-> ""]
HandleCall(op, idx, message) == [op |-> op, idx |-> idx, message |-> message]

\* mutant of inc: the bar is advanced twice
inc_twice(rep) == [rep EXCEPT !.position = @ + 2]

\* mutant of inc: the update is lost
inc_lost(rep) == rep

\* ProgressHandle::inc
inc(rep) == [rep EXCEPT !.position = @ + 1]

\* mutant of worker_start: an index past the end writes the last slot
worker_start_clamped(rep, idx, message) ==
    IF DOMAIN rep.messages = {}
    THEN rep
    ELSE LET last == Cardinality(DOMAIN rep.messages) - 1
             slot == IF idx > last THEN last ELSE idx
         IN  [rep EXCEPT !.messages[slot] = message]

\* ProgressHandle::worker_start
worker_start(rep, idx, message) ==
    IF idx \in DOMAIN rep.messages
    THEN [rep EXCEPT !.messages[idx] = message]
    ELSE rep

\* mutant of worker_finish: the message is left as it is
worker_finish_forgotten(rep, idx) == rep

\* ProgressHandle::worker_finish
worker_finish(rep, idx) ==
    IF idx \in DOMAIN rep.messages
    THEN [rep EXCEPT !.messages[idx] = "idle"]
    ELSE rep

\* mutant of finish: the bars are left running
finish_not_called(rep) == rep

\* ProgressReporter::finish: finish_and_clear() on the overall bar puts its
\* position at its length
finish(rep) ==
    [rep EXCEPT !.state = "finished", !.finishes = @ + 1,
                !.position = rep.total]

\* ReportEntry::from(&LinkFailure)
ReportEntry(failure) ==
    [name |-> failure.bookmark.name, url |-> failure.bookmark.url,
     reason |-> failure.reason]

\* FailureReport::from_failures (report.rs)
from_failures(fs) ==
    LET of_kind(kind) == SelectSeq(fs, LAMBDA f : f.kind = kind)
        entries(sel) == [i \in 1..Len(sel) |-> ReportEntry(sel[i])]
    IN  [not_found |-> entries(of_kind("NotFound")),
         unauthorized |-> entries(of_kind("Unauthorized")),
         connection_errors |-> entries(of_kind("Connection"))]

\* the file at output_path: the YAML of a FailureReport (fs::write returned
\* Ok), some prefix of that text, whatever it parses to (fs::write failed
\* after it had created the file), or no file
WrittenReport(doc) == [state |-> "yaml", doc |-> doc]
PartFailureReport == [state |-> "partial", doc |-> from_failures(<<>>)]
NoFailureReport == [state |-> "none", doc |-> from_failures(<<>>)]

\* Result<Vec<LinkFailure>, BookmarkError>
NoVerdict == [tag |-> "none", failures |-> <<>>, err |-> ""]
OkVerdict(fs) == [tag |-> "Ok", failures |-> fs, err |-> ""]
ErrVerdict(e) == [tag |-> "Err", failures |-> <<>>, err |-> e]

(***************************************************************************)
(* Bounded input trees: every JSON value of weight at most MaxWeight.  A   *)
(* scalar, an array and an object weigh 1 plus the weight of their         *)
(* elements or of their children and bookmark_bar fields; an object of a shape a   *)
(* bookmark file does not normally hold (a leaf without a string name or   *)
(* url, a folder carrying a url, a leaf with sub-nodes) weighs 1 more.     *)
(* The scalar fields type, name and url come with the shape of the object. *)
(* Object entries are listed in key order, the iteration order of          *)
(* serde_json's default Map.                                               *)
(***************************************************************************)
MaxWeight == 4

Urls == {"a", "b"}

\* marker for a field that is not present (never part of a tree)
Absent == [k |-> "absent", s |-> "", items |-> <<>>]

\* entries of an object in key order:
\* bookmark_bar < children < name < type < url
MkObject(children, bar, name, type, url) ==
    LET opt(key, v) == IF v = Absent THEN <<>> ELSE <<Entry(key, v)>>
    IN  Object(opt("bookmark_bar", bar) \o opt("children", children)
               \o opt("name", name) \o opt("type", type) \o opt("url", url))

\* object shapes: name, type and url fields, weight, and whether the object
\* has sub-nodes (a children and/or a bookmark_bar field)
Shape(name, type, url, w, kids) ==
    [name |-> name, type |-> type, url |-> url, w |-> w, kids |-> kids]

ObjectShapes ==
    {Shape(Str("n"), Str("url"), Str(u), 1, FALSE) : u \in Urls}
      \cup {Shape(Str("n"), Str("url"), Str("a"), 2, TRUE),
             Shape(Absent, Absent, Absent, 1, TRUE),
             Shape(Str("n"), Str("folder"), Str("a"), 2, FALSE),
             Shape(Absent, Str("url"), Str("a"), 2, FALSE),
             Shape(Str("n"), Str("url"), Null, 2, FALSE)}

\* sequences of values of total weight n; vs[i] is the set of values of
\* weight i < n + 1, ss[j + 1] the set of sequences of total weight j < n
SeqsOfWeight(n, vs, ss) ==
    IF n = 0 THEN {<<>>}
    ELSE UNION {{<<v>> \o rest : v \in vs[i], rest \in ss[n - i + 1]} : i \in 1..n}

\* objects of weight n; vs[i] is the set of values of weight i < n
ObjectsOfWeight(n, vs) ==
    LET opt(i) == IF i = 0 THEN {Absent} ELSE vs[i]
        of(sh) ==
            IF ~sh.kids
            THEN IF n = sh.w
                 THEN {MkObject(Absent, Absent, sh.name, sh.type, sh.url)}
                 ELSE {}
            ELSE IF n <= sh.w
            THEN {}
            ELSE UNION {{MkObject(c, m, sh.name, sh.type, sh.url) :
                           c \in opt(i), m \in opt(n - sh.w - i)} :
                        i \in 0..(n - sh.w)}
    IN  UNION {of(sh) : sh \in ObjectShapes}

RECURSIVE BuildValues(_)
BuildValues(n) ==
    IF n = 0 THEN [vs |-> <<>>, ss |-> <<>>]
    ELSE LET p == BuildValues(n - 1)
             seqs == SeqsOfWeight(n - 1, p.vs, p.ss)
             vals == (IF n = 1 THEN {Str("x")} ELSE {})
                       \cup {Array(xs) : xs \in seqs}
                       \cup ObjectsOfWeight(n, p.vs)
         IN  [vs |-> Append(p.vs, vals), ss |-> Append(p.ss, seqs)]

Trees == UNION Range(BuildValues(MaxWeight).vs)

(***************************************************************************)
(* Tree specification: one call of remove_targets, a second call on the    *)
(* result, and extract_bookmarks on the input.                             *)
(***************************************************************************)
\* the verification engine is not running
VerifyIdle ==
    /\ call = NoCall
    /\ bookmarks = <<>>
    /\ client = [state |-> "none", builds |-> 0]
    /\ reporter = NoReporter
    /\ workers = <<>>
    /\ leaves = <<>>
    /\ failures = <<>>
    /\ verdict = NoVerdict
    /\ report = NoFailureReport

InitTree ==
    /\ pc = "start"
    /\ tree0 \in Trees
    /\ targets \in SUBSET Urls
    /\ data = tree0
    /\ removed = 0
    /\ collected = <<>>
    /\ before = tree0
    /\ report_file = NoReport
    /\ bookmarks_file = NoFile
    /\ file0 = NoFile
    /\ backup_file = NoFile
    /\ result = NoResult
    /\ VerifyIdle

Remove ==
    /\ pc = "start"
    /\ LET r == remove_targets(data, targets)
       IN  /\ data' = r.root
           /\ removed' = r.removed
    /\ before' = data
    /\ pc' = "removed"
    /\ UNCHANGED <<tree0, targets, collected, clean_vars, verify_vars>>

RemoveAgain ==
    /\ pc = "removed"
    /\ LET r == remove_targets(data, targets)
       IN  /\ data' = r.root
           /\ removed' = r.removed
    /\ before' = data
    /\ pc' = "removed_again"
    /\ UNCHANGED <<tree0, targets, collected, clean_vars, verify_vars>>

Extract ==
    /\ pc = "start"
    /\ collected' = extract_bookmarks(data)
    /\ pc' = "extracted"
    /\ UNCHANGED <<tree0, targets, data, removed, before, clean_vars, verify_vars>>

\* extract_bookmarks on the tree remove_targets left
ExtractCleaned ==
    /\ pc = "removed"
    /\ collected' = extract_bookmarks(data)
    /\ pc' = "removed_extracted"
    /\ UNCHANGED <<tree0, targets, data, removed, before, clean_vars, verify_vars>>

NextTree == Remove \/ RemoveAgain \/ Extract \/ ExtractCleaned

SpecTree == InitTree /\ [][NextTree]_vars

(***************************************************************************)
(* Cleanup specification: one call of clean_failures, step by step.        *)
(***************************************************************************)
MaxFileWeight == 3
MaxEntries == 1

FileTrees == UNION Range(BuildValues(MaxFileWeight).vs)

Entries == {FailureEntry(TRUE, u) : u \in Urls} \cup {FailureEntry(FALSE, "")}

\* the three sequences of a report holding n entries in all; a sequence
\* without entries is either empty or left out
RECURSIVE EntrySeqs(_)
EntrySeqs(n) ==
    IF n = 0 THEN {<<>>}
    ELSE {Append(es, e) : es \in EntrySeqs(n - 1), e \in Entries}

ReportSeqs(n) ==
    IF n = 0
    THEN {ReportSeq(TRUE, <<>>), ReportSeq(FALSE, <<>>)}
    ELSE {ReportSeq(TRUE, es) : es \in EntrySeqs(n)}

DocsUpTo(m) ==
    UNION {{ReportDoc(nf, un, ce) :
               nf \in ReportSeqs(i), un \in ReportSeqs(j),
               ce \in ReportSeqs(n - i - j)} :
           <<n, i, j>> \in {t \in (0..m) \X (0..m) \X (0..m) :
                              t[2] + t[3] <= t[1]}}

ReportDocs == DocsUpTo(MaxEntries)

InitClean ==
    /\ pc = "clean_start"
    /\ report_file \in ReportDocs \cup {BadReport, UnreadableReport, NoReport}
    /\ bookmarks_file \in {JsonFile(fmt, v) : fmt \in {"found", "pretty"}, v \in FileTrees}
                            \cup {BadFile, NonTextFile}
    /\ file0 = bookmarks_file
    /\ backup_file = NoFile
    /\ result = NoResult
    /\ tree0 = Null
    /\ targets = {}
    /\ data = Null
    /\ removed = 0
    /\ collected = <<>>
    /\ before = Null
    /\ VerifyIdle

\* lines 19-21: if !report_path.exists() { return Ok(default) }
CleanCheckReport ==
    /\ pc = "clean_start"
    /\ IF report_file.state = "none"
       THEN pc' = "clean_done" /\ result' = DefaultResult
       ELSE pc' = "clean_read_report" /\ UNCHANGED result
    /\ UNCHANGED <<tree_vars, verify_vars, report_file, bookmarks_file, file0, backup_file>>

\* mutant of CleanReadReport: no early return on an empty target set
CleanReadReportNoEmptyCheck ==
    /\ pc = "clean_read_report"
    /\ IF report_file.state = "unreadable"
       THEN /\ pc' = "clean_done"
            /\ result' = ErrResult("Io")
            /\ UNCHANGED targets
       ELSE IF report_file.state = "garbage"
       THEN /\ pc' = "clean_done"
            /\ result' = ErrResult("ReportParse")
            /\ UNCHANGED targets
       ELSE /\ targets' = into_targets(FailureReport(report_file))
            /\ pc' = "clean_backup"
            /\ UNCHANGED result
    /\ UNCHANGED <<tree0, data, removed, collected, before, verify_vars,
                   report_file, bookmarks_file, file0, backup_file>>

\* lines 23-30: read and parse the report, build the targets
CleanReadReport ==
    /\ pc = "clean_read_report"
    /\ IF report_file.state = "unreadable"
       THEN /\ pc' = "clean_done"
            /\ result' = ErrResult("Io")
            /\ UNCHANGED targets
       ELSE IF report_file.state = "garbage"
       THEN /\ pc' = "clean_done"
            /\ result' = ErrResult("ReportParse")
            /\ UNCHANGED targets
       ELSE /\ targets' = into_targets(FailureReport(report_file))
            /\ IF targets' = {}
               THEN pc' = "clean_done" /\ result' = DefaultResult
               ELSE pc' = "clean_backup" /\ UNCHANGED result
    /\ UNCHANGED <<tree0, data, removed, collected, before, verify_vars,
                   report_file, bookmarks_file, file0, backup_file>>

\* line 32 and create_backup: fs::copy succeeds
CleanBackupCopied ==
    /\ pc = "clean_backup"
    /\ backup_file' = bookmarks_file
    /\ pc' = "clean_read_bookmarks"
    /\ UNCHANGED <<tree_vars, verify_vars, report_file, bookmarks_file, file0, result>>

\* mutant of CleanBackupFailed: the error of fs::copy is dropped
CleanBackupFailedGoesOn ==
    /\ pc = "clean_backup"
    /\ pc' = "clean_read_bookmarks"
    /\ UNCHANGED <<tree_vars, verify_vars, report_file, bookmarks_file, file0,
                   backup_file, result>>

\* what a failing fs::copy can leave at the backup path: nothing, every
\* byte of the source, or a prefix of its bytes.  A prefix is text that is
\* no JSON, bytes that are no text, or JSON text: of JSON text it holds the
\* same value (only trailing white space is cut), of other bytes it may
\* hold any value
FailedCopies(source) ==
    {NoFile, BadFile, NonTextFile, source}
      \cup (IF source.state = "json"
            THEN {JsonFile(fmt, source.value) : fmt \in {"found", "pretty"}}
            ELSE {JsonFile(fmt, v) : fmt \in {"found", "pretty"}, v \in FileTrees})

\* line 32 and create_backup: fs::copy fails, before it has created the
\* backup or with all or a part of the bytes copied
CleanBackupFailed ==
    /\ pc = "clean_backup"
    /\ backup_file' \in FailedCopies(bookmarks_file)
    /\ result' = ErrResult("Io")
    /\ pc' = "clean_done"
    /\ UNCHANGED <<tree_vars, verify_vars, report_file, bookmarks_file, file0>>

\* line 33: read and parse the bookmarks file
CleanReadBookmarks ==
    /\ pc = "clean_read_bookmarks"
    /\ IF bookmarks_file.state = "json"
       THEN /\ data' = bookmarks_file.value
            /\ tree0' = bookmarks_file.value
            /\ pc' = "clean_remove"
            /\ UNCHANGED result
       ELSE IF bookmarks_file.state = "binary"
       THEN /\ result' = ErrResult("Io")
            /\ pc' = "clean_done"
            /\ UNCHANGED <<data, tree0>>
       ELSE /\ result' = ErrResult("InvalidFormat")
            /\ pc' = "clean_done"
            /\ UNCHANGED <<data, tree0>>
    /\ UNCHANGED <<targets, removed, collected, before, verify_vars,
                   report_file, bookmarks_file, file0, backup_file>>

\* line 34: remove_targets(&mut data, &targets)
CleanRemove ==
    /\ pc = "clean_remove"
    /\ LET r == remove_targets(data, targets)
       IN  /\ data' = r.root
           /\ removed' = r.removed
    /\ before' = data
    /\ pc' = "clean_write"
    /\ UNCHANGED <<tree0, targets, collected, clean_vars, verify_vars>>

\* lines 36-40 with removed = 0: nothing is written
CleanSkipWrite ==
    /\ pc = "clean_write"
    /\ ~write_needed(removed)
    /\ pc' = "clean_return"
    /\ UNCHANGED <<tree_vars, clean_vars, verify_vars>>

\* lines 36-40 with removed > 0: fs::write succeeds
CleanWritten ==
    /\ pc = "clean_write"
    /\ write_needed(removed)
    /\ bookmarks_file' = to_string_pretty(data)
    /\ pc' = "clean_return"
    /\ UNCHANGED <<tree_vars, verify_vars, report_file, file0, backup_file, result>>

\* lines 36-40 with removed > 0: fs::write fails, before it has truncated
\* the file or with a proper prefix of the text written (no JSON; no text
\* when the cut falls inside a character)
CleanWriteFailed ==
    /\ pc = "clean_write"
    /\ write_needed(removed)
    /\ bookmarks_file' \in {bookmarks_file, BadFile, NonTextFile}
    /\ result' = ErrResult("Io")
    /\ pc' = "clean_done"
    /\ UNCHANGED <<tree_vars, verify_vars, report_file, file0, backup_file>>

\* lines 42-45: Ok(CleanupResult { removed, backup_path: Some(backup_path) })
CleanReturn ==
    /\ pc = "clean_return"
    /\ result' = OkResult(removed, BackupPath)
    /\ pc' = "clean_done"
    /\ UNCHANGED <<tree_vars, verify_vars, report_file, bookmarks_file, file0, backup_file>>

NextClean ==
    \/ CleanCheckReport
    \/ CleanReadReport
    \/ CleanBackupCopied
    \/ CleanBackupFailed
    \/ CleanReadBookmarks
    \/ CleanRemove
    \/ CleanSkipWrite
    \/ CleanWritten
    \/ CleanWriteFailed
    \/ CleanReturn

SpecClean == InitClean /\ [][NextClean]_vars

(***************************************************************************)
(* The target set of a report on its own: serde_yaml::from_str followed by *)
(* into_targets (cleaner.rs:24-27), over reports of up to MaxReportEntries *)
(* entries.                                                                *)
(***************************************************************************)
MaxReportEntries == 2

InitTargets ==
    /\ pc = "targets_start"
    /\ report_file \in DocsUpTo(MaxReportEntries)
    /\ targets = {}
    /\ bookmarks_file = NoFile
    /\ file0 = NoFile
    /\ backup_file = NoFile
    /\ result = NoResult
    /\ tree0 = Null
    /\ data = Null
    /\ removed = 0
    /\ collected = <<>>
    /\ before = Null
    /\ VerifyIdle

\* lines 24-27: parse the report, build the targets
ReadTargets ==
    /\ pc = "targets_start"
    /\ targets' = into_targets(FailureReport(report_file))
    /\ pc' = "targets_done"
    /\ UNCHANGED <<tree0, data, removed, collected, before, clean_vars, verify_vars>>

NextTargets == ReadTargets

SpecTargets == InitTargets /\ [][NextTargets]_vars

(***************************************************************************)
(* The verification run: check_bookmarks (checker.rs:13-50) on a pool of   *)
(* rayon threads, followed by the caller's report (runner.rs:38-50).       *)
(* One action per step of the owner and of each pool thread.               *)
(***************************************************************************)
MaxLeaves == 2
MaxWorkers == 2
Names == {"A"}
Statuses == {200, 401, 403, 404, 500}
Errors == {"timeout", "dns error"}
Sent == {Response(st) : st \in Statuses} \cup {TransportError(e) : e \in Errors}

BookmarkSeqs ==
    UNION {[1..n -> {Bookmark(nm, u) : nm \in Names, u \in Urls}] : n \in 0..MaxLeaves}

Init ==
    /\ pc = "verify_start"
    /\ bookmarks \in BookmarkSeqs
    /\ client = [state |-> "none", builds |-> 0]
    /\ reporter = NoReporter
    /\ \E n \in 1..MaxWorkers :
         workers = [idx \in 0..(n - 1) |-> [pc |-> "idle", leaf |-> 0]]
    /\ leaves = [i \in 1..Len(bookmarks) |->
                   [state |-> "pending", sent |-> NoResponse,
                    outcome |-> NoFailure, requests |-> 0]]
    /\ failures = <<>>
    /\ verdict = NoVerdict
    /\ report = NoFailureReport
    /\ call = NoCall
    /\ tree0 = Null
    /\ targets = {}
    /\ data = Null
    /\ removed = 0
    /\ collected = <<>>
    /\ before = Null
    /\ report_file = NoReport
    /\ bookmarks_file = NoFile
    /\ file0 = NoFile
    /\ backup_file = NoFile
    /\ result = NoResult

\* lines 14-16: if bookmarks.is_empty() { return Ok(Vec::new()) }
VerifyBegin ==
    /\ pc = "verify_start"
    /\ IF is_empty(bookmarks)
       THEN pc' = "returned" /\ verdict' = OkVerdict(<<>>)
       ELSE pc' = "build_client" /\ UNCHANGED verdict
    /\ UNCHANGED <<tree_vars, clean_vars, call, bookmarks, client, reporter, workers,
                   leaves, failures, report>>

\* line 18, lines 52-58: build_client() succeeds
BuildClientOk ==
    /\ pc = "build_client"
    /\ client' = [state |-> "built", builds |-> client.builds + 1]
    /\ pc' = "new_reporter"
    /\ UNCHANGED <<tree_vars, clean_vars, call, bookmarks, reporter, workers, leaves,
                   failures, verdict, report>>

\* mutant of BuildClientFailed: the error is swallowed and the run goes on
BuildClientFailedGoesOn ==
    /\ pc = "build_client"
    /\ client' = [state |-> "failed", builds |-> client.builds + 1]
    /\ pc' = "new_reporter"
    /\ UNCHANGED <<tree_vars, clean_vars, call, bookmarks, reporter, workers, leaves,
                   failures, verdict, report>>

\* line 18, line 57: build() fails, `?` returns HttpClientBuild
BuildClientFailed ==
    /\ pc = "build_client"
    /\ client' = [state |-> "failed", builds |-> client.builds + 1]
    /\ verdict' = ErrVerdict("HttpClientBuild")
    /\ pc' = "returned"
    /\ UNCHANGED <<tree_vars, clean_vars, call, bookmarks, reporter, workers, leaves,
                   failures, report>>

\* lines 19-22: total, worker_count, ProgressReporter::new, handle
NewReporter ==
    /\ pc = "new_reporter"
    /\ reporter' = ProgressReporter_new(Len(bookmarks), Cardinality(DOMAIN workers))
    /\ pc' = "dispatch"
    /\ UNCHANGED <<tree_vars, clean_vars, call, bookmarks, client, workers, leaves,
                   failures, verdict, report>>

\* mutant of par_iter_take: the item stays available to other threads
par_iter_peek(items, i) == items

\* par_iter (lines 24-25): an item is handed to one closure call
par_iter_take(items, i) == [items EXCEPT ![i].state = "taken"]

\* lines 28-31: a pool thread takes a leaf and announces it on its bar
WorkerStart(idx, i) ==
    /\ pc = "dispatch"
    /\ workers[idx].pc = "idle"
    /\ leaves[i].state = "pending"
    /\ leaves' = par_iter_take(leaves, i)
    /\ workers' = [workers EXCEPT ![idx] = [pc |-> "started", leaf |-> i]]
    /\ reporter' = worker_start(reporter, idx,
                                bookmarks[i].name \o " -> " \o bookmarks[i].url)
    /\ UNCHANGED <<pc, tree_vars, clean_vars, call, bookmarks, client, failures,
                   verdict, report>>

\* line 33, checker.rs:61: client.get(&bookmark.url).send() issues the
\* request; the thread waits inside send() for what comes back
WorkerSend(idx) ==
    /\ pc = "dispatch"
    /\ workers[idx].pc = "started"
    /\ leaves' = [leaves EXCEPT ![workers[idx].leaf].requests = @ + 1]
    /\ workers' = [workers EXCEPT ![idx].pc = "sent"]
    /\ UNCHANGED <<pc, tree_vars, clean_vars, call, bookmarks, client, reporter,
                   failures, verdict, report>>

\* line 33, checker.rs:61-70: send() returns a response or a transport
\* error and check_single classifies it
WorkerCheck(idx) ==
    /\ pc = "dispatch"
    /\ workers[idx].pc = "sent"
    /\ \E sent \in Sent :
         leaves' = [leaves EXCEPT ![workers[idx].leaf] =
                      [state |-> "taken", sent |-> sent,
                       outcome |-> check_single(bookmarks[workers[idx].leaf], sent),
                       requests |-> @.requests]]
    /\ workers' = [workers EXCEPT ![idx].pc = "checked"]
    /\ UNCHANGED <<pc, tree_vars, clean_vars, call, bookmarks, client, reporter,
                   failures, verdict, report>>

\* line 35: progress.inc()
WorkerInc(idx) ==
    /\ pc = "dispatch"
    /\ workers[idx].pc = "checked"
    /\ reporter' = inc(reporter)
    /\ workers' = [workers EXCEPT ![idx].pc = "counted"]
    /\ UNCHANGED <<pc, tree_vars, clean_vars, call, bookmarks, client, leaves,
                   failures, verdict, report>>

\* lines 37-41: progress.worker_finish(idx); the closure returns its result
WorkerFinish(idx) ==
    /\ pc = "dispatch"
    /\ workers[idx].pc = "counted"
    /\ reporter' = worker_finish(reporter, idx)
    /\ leaves' = [leaves EXCEPT ![workers[idx].leaf].state = "done"]
    /\ workers' = [workers EXCEPT ![idx] = [pc |-> "idle", leaf |-> 0]]
    /\ UNCHANGED <<pc, tree_vars, clean_vars, call, bookmarks, client, failures,
                   verdict, report>>

\* lines 44-45: filter_map(|failure| failure).collect(), in input order
Collect ==
    /\ pc = "dispatch"
    /\ \A i \in DOMAIN leaves : leaves[i].state = "done"
    /\ LET some == SelectSeq(leaves, LAMBDA l : l.outcome.some)
       IN  failures' = [j \in 1..Len(some) |->
                          [bookmark |-> some[j].outcome.bookmark,
                           reason |-> some[j].outcome.reason,
                           kind |-> some[j].outcome.kind]]
    /\ pc' = "finish"
    /\ UNCHANGED <<tree_vars, clean_vars, call, bookmarks, client, reporter, workers,
                   leaves, verdict, report>>

\* line 47: reporter.finish()
Finish ==
    /\ pc = "finish"
    /\ reporter' = finish(reporter)
    /\ pc' = "return"
    /\ UNCHANGED <<tree_vars, clean_vars, call, bookmarks, client, workers, leaves,
                   failures, verdict, report>>

\* line 49: Ok(failures)
Return ==
    /\ pc = "return"
    /\ verdict' = OkVerdict(failures)
    /\ pc' = "returned"
    /\ UNCHANGED <<tree_vars, clean_vars, call, bookmarks, client, reporter, workers,
                   leaves, failures, report>>

\* runner.rs:38-50: `?` on the verdict returns its error; a report is
\* written only when there are failures (report.rs:25-30); Ok(())
WriteReport ==
    /\ pc = "returned"
    /\ IF verdict.tag = "Err"
       THEN pc' = "run_failed" /\ UNCHANGED report
       ELSE /\ pc' = "run_done"
            /\ report' = IF verdict.failures # <<>>
                         THEN WrittenReport(from_failures(verdict.failures))
                         ELSE report
    /\ UNCHANGED <<tree_vars, clean_vars, call, bookmarks, client, reporter, workers,
                   leaves, failures, verdict>>

\* runner.rs:44 with report.rs:28: fs::write fails, before it has created
\* the file or with a part of the text written; `?` returns the Io error
WriteReportFailed ==
    /\ pc = "returned"
    /\ verdict.tag = "Ok"
    /\ verdict.failures # <<>>
    /\ report' \in {report, PartFailureReport}
    /\ pc' = "run_failed"
    /\ UNCHANGED <<tree_vars, clean_vars, call, bookmarks, client, reporter, workers,
                   leaves, failures, verdict>>

Next ==
    \/ VerifyBegin
    \/ BuildClientOk
    \/ BuildClientFailed
    \/ NewReporter
    \/ \E idx \in DOMAIN workers, i \in DOMAIN leaves : WorkerStart(idx, i)
    \/ \E idx \in DOMAIN workers : WorkerSend(idx)
    \/ \E idx \in DOMAIN workers : WorkerCheck(idx)
    \/ \E idx \in DOMAIN workers : WorkerInc(idx)
    \/ \E idx \in DOMAIN workers : WorkerFinish(idx)
    \/ Collect
    \/ Finish
    \/ Return
    \/ WriteReport
    \/ WriteReportFailed

Spec == Init /\ [][Next]_vars

\* The owner and every pool thread keep running, and send() returns (the
\* client has a request timeout, line 54): a step that can be taken is taken.
LiveSpec == Spec /\ WF_vars(Next)

(***************************************************************************)
(* progress.rs used on its own, as in tests::handle_updates_overall_count: *)
(* a reporter is created and calls are made on its handle with any index,  *)
(* in any order, until the owner finishes it.                              *)
(***************************************************************************)
MaxTotal == 2
Messages == {nm \o " -> " \o u : nm \in Names, u \in Urls}

InitProgress ==
    /\ pc = "handle_ready"
    /\ \E total \in 0..MaxTotal, worker_count \in 0..MaxWorkers :
          reporter = ProgressReporter_new(total, worker_count)
    /\ call = NoCall
    /\ bookmarks = <<>>
    /\ client = [state |-> "none", builds |-> 0]
    /\ workers = <<>>
    /\ leaves = <<>>
    /\ failures = <<>>
    /\ verdict = NoVerdict
    /\ report = NoFailureReport
    /\ tree0 = Null
    /\ targets = {}
    /\ data = Null
    /\ removed = 0
    /\ collected = <<>>
    /\ before = Null
    /\ report_file = NoReport
    /\ bookmarks_file = NoFile
    /\ file0 = NoFile
    /\ backup_file = NoFile
    /\ result = NoResult

\* handle.inc(), at most MaxTotal + 1 times
HandleInc ==
    /\ pc = "handle_ready"
    /\ reporter.position <= MaxTotal
    /\ reporter' = inc(reporter)
    /\ call' = HandleCall("inc", 0, "")
    /\ UNCHANGED <<pc, tree_vars, clean_vars, bookmarks, client, workers, leaves,
                   failures, verdict, report>>

\* handle.worker_start(idx, message)
HandleWorkerStart(idx, message) ==
    /\ pc = "handle_ready"
    /\ reporter' = worker_start(reporter, idx, message)
    /\ call' = HandleCall("worker_start", idx, message)
    /\ UNCHANGED <<pc, tree_vars, clean_vars, bookmarks, client, workers, leaves,
                   failures, verdict, report>>

\* handle.worker_finish(idx)
HandleWorkerFinish(idx) ==
    /\ pc = "handle_ready"
    /\ reporter' = worker_finish(reporter, idx)
    /\ call' = HandleCall("worker_finish", idx, "")
    /\ UNCHANGED <<pc, tree_vars, clean_vars, bookmarks, client, workers, leaves,
                   failures, verdict, report>>

\* reporter.finish() consumes the reporter
HandleFinish ==
    /\ pc = "handle_ready"
    /\ reporter' = finish(reporter)
    /\ call' = HandleCall("finish", 0, "")
    /\ pc' = "handle_finished"
    /\ UNCHANGED <<tree_vars, clean_vars, bookmarks, client, workers, leaves,
                   failures, verdict, report>>

NextProgress ==
    \/ HandleInc
    \/ \E idx \in 0..MaxWorkers, message \in Messages : HandleWorkerStart(idx, message)
    \/ \E idx \in 0..MaxWorkers : HandleWorkerFinish(idx)
    \/ HandleFinish

\* the progress reporter in both of its uses: inside a verification run and
\* called directly
SpecProgress == (Init \/ InitProgress) /\ [][Next \/ NextProgress]_vars

(***************************************************************************)
(* Vocabulary of the tree properties: positions, leaves, what a traversal  *)
(* reaches.  A position is the sequence of indices leading from the root   *)
(* to a value, through array elements and object entries.                  *)
(***************************************************************************)
ChildAt(node, i) == IF node.k = "obj" THEN node.items[i].val ELSE node.items[i]

RECURSIVE PathsOf(_)
PathsOf(node) ==
    {<<>>} \cup UNION {{<<i>> \o p : p \in PathsOf(ChildAt(node, i))} :
                       i \in 1..Len(node.items)}

RECURSIVE NodeAt(_, _)
NodeAt(node, p) == IF p = <<>> THEN node ELSE NodeAt(ChildAt(node, Head(p)), Tail(p))

\* a leaf node: an object whose type is "url"
IsLeaf(node) ==
    /\ node.k = "obj"
    /\ \E i \in 1..Len(node.items) :
          node.items[i].key = "type" /\ node.items[i].val = Str("url")

\* the string held by field key of an object, "" when there is none
FieldStr(node, key) ==
    IF \E i \in 1..Len(node.items) :
          node.items[i].key = key /\ node.items[i].val.k = "str"
    THEN (CHOOSE e \in Range(node.items) : e.key = key).val.s
    ELSE ""

HasFieldStr(node, key) ==
    \E i \in 1..Len(node.items) :
        node.items[i].key = key /\ node.items[i].val.k = "str"

\* a leaf whose url is a member of T
TargetLeaf(node, T) == IsLeaf(node) /\ HasFieldStr(node, "url") /\ FieldStr(node, "url") \in T

\* a leaf that carries a string name and a string url
NamedLeaf(node) == IsLeaf(node) /\ HasFieldStr(node, "url") /\ HasFieldStr(node, "name")

\* the traversals reach position p: no step of p enters a "children" field
\* whose value is not an array
Walked(tree, p) ==
    \A n \in 1..Len(p) :
        LET parent == NodeAt(tree, SubSeq(p, 1, n - 1))
        IN  (parent.k = "obj" /\ parent.items[p[n]].key = "children")
                => parent.items[p[n]].val.k = "arr"

\* position p lies below a leaf whose url is in T
BelowTarget(tree, p, T) ==
    \E n \in 0..(Len(p) - 1) : TargetLeaf(NodeAt(tree, SubSeq(p, 1, n)), T)

\* the positions remove_node answers (1, true) for: the leaves with url in T
\* that the traversal reaches without passing through another such leaf
Matched(tree, T) ==
    {p \in PathsOf(tree) :
        Walked(tree, p) /\ TargetLeaf(NodeAt(tree, p), T) /\ ~BelowTarget(tree, p, T)}

\* position p is, or lies inside, a matched subtree other than the root
Excised(tree, p, T) ==
    \E n \in 1..Len(p) : SubSeq(p, 1, n) \in Matched(tree, T)

LeafPaths(tree) == {p \in PathsOf(tree) : IsLeaf(NodeAt(tree, p))}

\* how many of the leaves at the positions P carry each (name, url) pair
LeafKey(node) == <<FieldStr(node, "name"), FieldStr(node, "url"),
                   HasFieldStr(node, "name"), HasFieldStr(node, "url")>>
LeafBag(tree, P) ==
    [key \in {LeafKey(NodeAt(tree, p)) : p \in P} |->
        Cardinality({p \in P : LeafKey(NodeAt(tree, p)) = key})]

\* the tree with every matched subtree other than the root cut out, siblings
\* kept in their order
RECURSIVE Pruned(_, _)
PrunedSeq(xs, T) ==
    LET kept == SelectSeq(xs, LAMBDA v : ~TargetLeaf(v, T))
    IN  [i \in 1..Len(kept) |-> Pruned(kept[i], T)]
Pruned(node, T) ==
    IF TargetLeaf(node, T) THEN node
    ELSE IF node.k = "arr" THEN Array(PrunedSeq(node.items, T))
    ELSE IF node.k = "obj"
    THEN LET kept == SelectSeq(node.items,
                        LAMBDA e : e.key = "children" \/ ~TargetLeaf(e.val, T))
         IN  Object([i \in 1..Len(kept) |->
                        IF kept[i].key # "children"
                        THEN Entry(kept[i].key, Pruned(kept[i].val, T))
                        ELSE IF kept[i].val.k = "arr"
                        THEN Entry("children", Array(PrunedSeq(kept[i].val.items, T)))
                        ELSE kept[i]])
    ELSE node

\* the leaves in depth-first pre-order: a node, then the elements of its
\* children array, then its other fields
RECURSIVE PreOrder(_), Flatten(_)
Flatten(seqs) == IF seqs = <<>> THEN <<>> ELSE Head(seqs) \o Flatten(Tail(seqs))
PreOrder(node) ==
    IF node.k = "arr"
    THEN Flatten([i \in 1..Len(node.items) |-> PreOrder(node.items[i])])
    ELSE IF node.k = "obj"
    THEN LET own == IF NamedLeaf(node)
                    THEN <<Bookmark(FieldStr(node, "name"), FieldStr(node, "url"))>>
                    ELSE <<>>
             kids == SelectSeq(node.items,
                        LAMBDA e : e.key = "children" /\ e.val.k = "arr")
             rest == SelectSeq(node.items, LAMBDA e : e.key # "children")
         IN  own
               \o Flatten([i \in 1..Len(kids) |-> PreOrder(kids[i].val)])
               \o Flatten([i \in 1..Len(rest) |-> PreOrder(rest[i].val)])
    ELSE <<>>

(***************************************************************************)
(* C1.  As claimed: after remove(G, T) no leaf with url in T remains       *)
(* anywhere in the tree, and every leaf of G with url not in T is still    *)
(* present.                                                                *)
(***************************************************************************)
C1_AsClaimed ==
    pc = "removed" =>
        /\ \A p \in PathsOf(data) : ~TargetLeaf(NodeAt(data, p), targets)
        /\ LeafBag(data, {p \in LeafPaths(data) :
                             ~TargetLeaf(NodeAt(data, p), targets)})
             = LeafBag(tree0, {p \in LeafPaths(tree0) :
                                  ~TargetLeaf(NodeAt(tree0, p), targets)})

(***************************************************************************)
(* C1, amended.  remove(G, T) cuts out exactly the subtrees rooted at the  *)
(* leaves with url in T that are not the root and that the traversal       *)
(* reaches (it enters array elements, the elements of an array-valued      *)
(* children field and every other object field, and stops at a leaf with   *)
(* url in T): the leaves of the result are the leaves of G outside those   *)
(* subtrees, and no leaf with url in T is left at a position the traversal *)
(* reaches unless the root is itself such a leaf.                          *)
(***************************************************************************)
C1_RemovesMatchedSubtrees ==
    pc = "removed" =>
        /\ LeafBag(data, LeafPaths(data))
             = LeafBag(tree0, {p \in LeafPaths(tree0) : ~Excised(tree0, p, targets)})
        /\ ~TargetLeaf(tree0, targets) =>
              \A p \in PathsOf(data) :
                  Walked(data, p) => ~TargetLeaf(NodeAt(data, p), targets)

\* a leaf was cut out and another leaf was kept
C1_Witness ==
    /\ pc = "removed"
    /\ \E p \in LeafPaths(tree0) : Excised(tree0, p, targets)
    /\ LeafPaths(data) # {}
    /\ LeafPaths(data) # LeafPaths(tree0)

(***************************************************************************)
(* C2.  As claimed: the count returned by remove(G, T) is the number of    *)
(* leaves of G, at any depth, whose url is in T.                           *)
(***************************************************************************)
C2_AsClaimed ==
    pc = "removed" =>
        removed = Cardinality({p \in LeafPaths(tree0) :
                                  TargetLeaf(NodeAt(tree0, p), targets)})

(***************************************************************************)
(* C2, amended.  The count returned by remove(G, T) is the number of       *)
(* leaves with url in T that the traversal reaches, the root included: a   *)
(* leaf below another leaf with url in T, or below a children field that   *)
(* is not an array, is not counted.                                        *)
(***************************************************************************)
C2_CountsMatchedLeaves ==
    pc = "removed" => removed = Cardinality(Matched(tree0, targets))

\* two leaves at different depths were counted
C2_Witness ==
    /\ pc = "removed"
    /\ removed >= 2
    /\ \E p, q \in Matched(tree0, targets) : Len(p) # Len(q)

(***************************************************************************)
(* C3.  As claimed: a second remove with the same T on the result of       *)
(* remove(G, T) returns 0 and leaves the tree unchanged.                   *)
(***************************************************************************)
C3_AsClaimed ==
    pc = "removed_again" => (removed = 0 /\ data = before)

(***************************************************************************)
(* C3, amended.  A second remove with the same T leaves the tree           *)
(* unchanged, and returns 0 unless the root is itself a leaf with url in   *)
(* T, in which case every call returns 1.                                  *)
(***************************************************************************)
C3_SecondRemoveChangesNothing ==
    pc = "removed_again" =>
        /\ data = before
        /\ removed = IF TargetLeaf(tree0, targets) THEN 1 ELSE 0

\* the first call removed something, the second nothing
C3_Witness ==
    /\ pc = "removed_again"
    /\ removed = 0
    /\ data # tree0

(***************************************************************************)
(* C4.  remove keeps order: in every array the surviving elements stand in *)
(* their former relative order, with no hole, none skipped and none        *)
(* processed twice; the result is the input with the matched subtrees cut  *)
(* out of each array and object in place.                                  *)
(***************************************************************************)
C4_SurvivorsKeepOrder ==
    pc = "removed" => data = Pruned(tree0, targets)

\* an array of three lost its first element and kept the other two
C4_Witness ==
    /\ pc = "removed"
    /\ tree0.k = "arr"
    /\ Len(tree0.items) = 3
    /\ TargetLeaf(tree0.items[1], targets)
    /\ data.k = "arr"
    /\ Len(data.items) = 2
    /\ data.items[1] # data.items[2]

(***************************************************************************)
(* C6.  As claimed: extract emits exactly one Leaf per node whose type is  *)
(* "url".                                                                  *)
(***************************************************************************)
C6_AsClaimed ==
    pc = "extracted" => Len(collected) = Cardinality(LeafPaths(tree0))

(***************************************************************************)
(* C6, amended.  extract emits exactly one Leaf per node that the          *)
(* traversal reaches, whose type is "url" and whose name and url are both  *)
(* strings (it does not enter a children field that is not an array), in   *)
(* depth-first pre-order with the elements of a node's children array      *)
(* before its other fields and array elements in order; it emits nothing   *)
(* for a tree without such a node.                                         *)
(***************************************************************************)
C6_ExtractEmitsNamedLeavesInPreOrder ==
    pc = "extracted" =>
        /\ collected = PreOrder(tree0)
        /\ Len(collected)
             = Cardinality({p \in PathsOf(tree0) :
                               Walked(tree0, p) /\ NamedLeaf(NodeAt(tree0, p))})

\* a leaf under children was emitted before a different leaf under a field
\* whose key sorts before "children"
C6_Witness ==
    /\ pc = "extracted"
    /\ Len(collected) = 2
    /\ collected[1] # collected[2]
    /\ tree0.k = "obj"
    /\ Len(tree0.items) = 2
    /\ tree0.items[1].key = "bookmark_bar"
    /\ tree0.items[2].key = "children"
    /\ extract_bookmarks(tree0.items[1].val) = <<collected[2]>>

(***************************************************************************)
(* C5.  When the target set is disjoint from the urls of the leaves of the *)
(* tree, remove returns 0 and leaves the tree unchanged, and clean_failures*)
(* leaves the bookmarks file byte-identical (it is not rewritten) and      *)
(* reports removed = 0.                                                    *)
(***************************************************************************)
LeafUrls(tree) ==
    {FieldStr(NodeAt(tree, p), "url") :
        p \in {q \in LeafPaths(tree) : HasFieldStr(NodeAt(tree, q), "url")}}

C5_DisjointTargetsChangeNothing ==
    (file0.state = "json" /\ targets \cap LeafUrls(file0.value) = {}) =>
        /\ bookmarks_file = file0
        /\ pc \in {"clean_write", "clean_return"} =>
              (removed = 0 /\ data = file0.value)
        /\ (pc = "clean_done" /\ result.tag = "Ok") => result.removed = 0

\* clean_failures ran to the end with targets that match no leaf of a file
\* that holds leaves
C5_Witness ==
    /\ pc = "clean_done"
    /\ result = OkResult(0, BackupPath)
    /\ targets # {}
    /\ file0.state = "json"
    /\ file0.fmt = "found"
    /\ LeafUrls(file0.value) # {}
    /\ targets \cap LeafUrls(file0.value) = {}
    /\ bookmarks_file = file0
    /\ backup_file = file0

(***************************************************************************)
(* Vocabulary of the verification properties                               *)
(***************************************************************************)
\* the owner is past the parallel map: every closure result is in
Mapped ==
    /\ pc \in {"finish", "return", "returned", "run_done", "run_failed"}
    /\ bookmarks # <<>>
    /\ client.state = "built"

\* the leaf's request has completed
Answered(i) == leaves[i].sent # NoResponse

Contains(text, part) ==
    \E k \in 1..(Len(text) - Len(part) + 1) :
        SubSeq(text, k, k + Len(part) - 1) = part

CountOf(seq, Test(_)) == Cardinality({j \in DOMAIN seq : Test(seq[j])})

(***************************************************************************)
(* C7.  check_bookmarks on an empty leaf list returns an empty failure     *)
(* sequence, and in every execution with empty input build_client is not   *)
(* called, no ProgressReporter is created, no pool thread is dispatched    *)
(* and no request is sent.                                                 *)
(***************************************************************************)
C7_EmptyInputBuildsNothing ==
    bookmarks = <<>> =>
        /\ client = [state |-> "none", builds |-> 0]
        /\ reporter = NoReporter
        /\ \A idx \in DOMAIN workers : workers[idx] = [pc |-> "idle", leaf |-> 0]
        /\ \A i \in DOMAIN leaves : leaves[i].requests = 0
        /\ pc \in {"verify_start", "returned", "run_done"}
        /\ pc \in {"returned", "run_done", "run_failed"} => verdict = OkVerdict(<<>>)

\* check_bookmarks returned on an empty list
C7_Witness ==
    /\ bookmarks = <<>>
    /\ pc = "returned"
    /\ verdict = OkVerdict(<<>>)
    /\ client.builds = 0
    /\ reporter.state = "none"

(***************************************************************************)
(* C8.  A leaf whose request completes with HTTP status 404 yields exactly *)
(* one failure record, for that leaf, with kind NotFound and reason        *)
(* "HTTP 404 Not Found".                                                   *)
(***************************************************************************)
C8_NotFoundYieldsOneRecord ==
    \A i \in DOMAIN leaves :
        leaves[i].sent = Response(404) =>
            /\ leaves[i].requests = 1
            /\ leaves[i].outcome =
                   SomeFailure(bookmarks[i], "HTTP 404 Not Found", "NotFound")
            /\ Mapped =>
                 LET record == [bookmark |-> bookmarks[i],
                                reason |-> "HTTP 404 Not Found",
                                kind |-> "NotFound"]
                     same(j) == bookmarks[j] = bookmarks[i]
                                  /\ leaves[j].sent = Response(404)
                 IN  /\ CountOf(failures, LAMBDA f : f = record)
                          = Cardinality({j \in DOMAIN leaves : same(j)})
                     /\ CountOf(failures, LAMBDA f : f.bookmark = bookmarks[i]
                                                      /\ f.kind = "NotFound")
                          = Cardinality({j \in DOMAIN leaves : same(j)})
                     /\ pc \in {"returned", "run_done", "run_failed"} => verdict = OkVerdict(failures)

\* two leaves, the second answered 404 and the first 200: one record
C8_Witness ==
    /\ pc = "returned"
    /\ Len(bookmarks) = 2
    /\ bookmarks[1] # bookmarks[2]
    /\ leaves[1].sent = Response(200)
    /\ leaves[2].sent = Response(404)
    /\ verdict = OkVerdict(<<[bookmark |-> bookmarks[2],
                             reason |-> "HTTP 404 Not Found",
                             kind |-> "NotFound"]>>)

(***************************************************************************)
(* C9.  A leaf whose request completes with status 401 or 403 yields       *)
(* exactly one failure record with kind Unauthorized and reason            *)
(* "HTTP <code> <canonical reason phrase>", and that record is placed in   *)
(* the `unauthorized` sequence of the report.                              *)
(***************************************************************************)
C9_AsClaimed ==
    \A i \in DOMAIN leaves :
        (leaves[i].sent.ok /\ leaves[i].sent.status \in {401, 403}) =>
            LET reason == "HTTP " \o ToString(leaves[i].sent.status) \o " "
                            \o canonical_reason(leaves[i].sent.status)
            IN  /\ leaves[i].outcome =
                       SomeFailure(bookmarks[i], reason, "Unauthorized")
                /\ pc = "run_done" =>
                     \E j \in DOMAIN report.doc.unauthorized :
                         report.doc.unauthorized[j] =
                             [name |-> bookmarks[i].name,
                              url |-> bookmarks[i].url,
                              reason |-> reason]

(***************************************************************************)
(* C10.  A leaf whose request fails at the transport layer yields exactly  *)
(* one failure record with kind Connection whose reason contains the       *)
(* description of the transport error, and that failure does not change    *)
(* the outcome of any other leaf: the run goes on, every other leaf is     *)
(* requested once and gets the outcome of its own response.                *)
(***************************************************************************)
C10_TransportErrorYieldsOneRecord ==
    \A i \in DOMAIN leaves :
        (Answered(i) /\ ~leaves[i].sent.ok) =>
            /\ leaves[i].requests = 1
            /\ leaves[i].outcome.some
            /\ leaves[i].outcome.bookmark = bookmarks[i]
            /\ leaves[i].outcome.kind = "Connection"
            /\ Contains(leaves[i].outcome.reason, leaves[i].sent.err)
            /\ \A j \in DOMAIN leaves \ {i} :
                 (Answered(j) /\ leaves[j].sent.ok) =>
                     /\ leaves[j].outcome.kind # "Connection"
                     /\ leaves[j].outcome.some =>
                          /\ leaves[j].outcome.bookmark = bookmarks[j]
                          /\ Contains(leaves[j].outcome.reason,
                                      ToString(leaves[j].sent.status))
                     /\ leaves[j].sent.status = 200 => ~leaves[j].outcome.some
            /\ Mapped =>
                 /\ \A j \in DOMAIN leaves :
                        leaves[j].state = "done" /\ leaves[j].requests = 1
                 /\ CountOf(failures, LAMBDA f : f.bookmark = bookmarks[i]
                                                  /\ f.kind = "Connection")
                      = Cardinality({j \in DOMAIN leaves :
                                       /\ bookmarks[j] = bookmarks[i]
                                       /\ ~leaves[j].sent.ok})
                 /\ pc \in {"returned", "run_done", "run_failed"} => verdict = OkVerdict(failures)

\* the first of two leaves timed out, the second answered 200 and 404 resp.
C10_Witness ==
    /\ pc = "run_done"
    /\ Len(bookmarks) = 2
    /\ bookmarks[1] # bookmarks[2]
    /\ leaves[1].sent = TransportError("timeout")
    /\ leaves[2].sent = Response(200)
    /\ leaves[2].outcome = NoFailure
    /\ verdict.failures = <<[bookmark |-> bookmarks[1],
                            reason |-> "Request failed: timeout",
                            kind |-> "Connection"]>>
    /\ report.state = "yaml"
    /\ report.doc.connection_errors = <<[name |-> bookmarks[1].name,
                                         url |-> bookmarks[1].url,
                                         reason |-> "Request failed: timeout"]>>

(***************************************************************************)
(* C11.  A leaf whose request completes with a status other than 404, 401  *)
(* or 403 (200, 500, ...) contributes zero failure records: its closure    *)
(* returns None, and the collected records of its bookmark are no more     *)
(* than the leaves with that bookmark that were answered otherwise.        *)
(***************************************************************************)
OtherStatus(i) ==
    Answered(i) /\ leaves[i].sent.ok /\ leaves[i].sent.status \notin {404, 401, 403}

C11_OtherStatusYieldsNoRecord ==
    \A i \in DOMAIN leaves :
        OtherStatus(i) =>
            /\ leaves[i].outcome = NoFailure
            /\ Mapped =>
                 /\ CountOf(failures, LAMBDA f : f.bookmark = bookmarks[i])
                      <= Cardinality({j \in DOMAIN leaves :
                                        bookmarks[j] = bookmarks[i] /\ ~OtherStatus(j)})
                 /\ pc \in {"returned", "run_done", "run_failed"} => verdict = OkVerdict(failures)

\* one leaf answered 500, the other 200: verify returned no record
C11_Witness ==
    /\ pc = "returned"
    /\ Len(bookmarks) = 2
    /\ leaves[1].sent = Response(500)
    /\ leaves[2].sent = Response(200)
    /\ verdict = OkVerdict(<<>>)

(***************************************************************************)
(* C12.  Per-leaf failures are never fatal: for a non-empty leaf list,     *)
(* once the client is built, check_bookmarks returns Ok with exactly one   *)
(* failure record per failing leaf (404, 401/403, transport error) and     *)
(* none for a reachable leaf, so the number of records equals the number   *)
(* of failing leaves.                                                      *)
(***************************************************************************)
\* the leaves the specification classifies as failed
Failing(i) ==
    Answered(i) /\ (~leaves[i].sent.ok \/ leaves[i].sent.status \in {404, 401, 403})

C12_AsClaimed ==
    (bookmarks # <<>> /\ client.state = "built" /\ pc \in {"returned", "run_done", "run_failed"}) =>
        /\ verdict.tag = "Ok"
        /\ Len(verdict.failures) = Cardinality({i \in DOMAIN leaves : Failing(i)})
        /\ \A i \in DOMAIN leaves :
              CountOf(verdict.failures, LAMBDA f : f.bookmark = bookmarks[i])
                = Cardinality({j \in DOMAIN leaves :
                                 bookmarks[j] = bookmarks[i] /\ Failing(j)})

(***************************************************************************)
(* C13.  Under any assignment of leaves to pool threads and any            *)
(* interleaving, every input leaf is processed exactly once: at most one   *)
(* GET per leaf at any time, no leaf in the hands of two threads, exactly  *)
(* one GET per leaf once the map is over (no retry, no leaf skipped), and  *)
(* check_bookmarks eventually returns.                                     *)
(***************************************************************************)
Holders(i) == {idx \in DOMAIN workers : workers[idx].leaf = i}

C13_ProcessedOnce ==
    /\ \A i \in DOMAIN leaves :
          /\ leaves[i].requests <= 1
          /\ Cardinality(Holders(i)) <= 1
          /\ leaves[i].state = "done" => leaves[i].requests = 1
          /\ Mapped => (leaves[i].state = "done" /\ leaves[i].requests = 1)
    /\ Mapped => \A idx \in DOMAIN workers : workers[idx].pc = "idle"

C13_EveryLeafProcessedOnceAndTerminates ==
    /\ []C13_ProcessedOnce
    /\ <>(pc \in {"run_done", "run_failed"})
    /\ (pc = "dispatch") ~>
          (pc = "returned" /\ verdict.tag = "Ok"
             /\ \A i \in DOMAIN leaves : leaves[i].requests = 1)

\* two pool threads, two leaves, each thread waits for the answer to the
\* request of its own leaf
C13_Witness ==
    /\ pc = "dispatch"
    /\ Len(bookmarks) = 2
    /\ Cardinality(DOMAIN workers) = 2
    /\ workers[0].leaf = 2
    /\ workers[1].leaf = 1
    /\ workers[0].pc = "sent"
    /\ workers[1].pc = "sent"
    /\ leaves[2].requests = 1
    /\ leaves[1].requests = 1
    /\ leaves[1].sent = NoResponse
    /\ leaves[2].sent = NoResponse

(***************************************************************************)
(* C14.  After a run over N leaves the overall progress counter is exactly *)
(* N when finish is reached, for every interleaving and every mix of       *)
(* outcomes: inc is called once per completed leaf and no increment is     *)
(* lost (the counter always equals the number of closures past inc).       *)
(***************************************************************************)
PastInc ==
    Cardinality({i \in DOMAIN leaves : leaves[i].state = "done"})
      + Cardinality({idx \in DOMAIN workers : workers[idx].pc = "counted"})

C14_CounterReachesTotal ==
    reporter.state # "none" =>
        /\ reporter.total = Len(bookmarks)
        /\ reporter.position = PastInc
        /\ reporter.position <= reporter.total
        /\ pc \in {"finish", "return", "returned", "run_done", "run_failed"} =>
              reporter.position = Len(bookmarks)

\* finish is reached with two leaves done by two threads, one of them failed
C14_Witness ==
    /\ pc = "finish"
    /\ Len(bookmarks) = 2
    /\ Cardinality(DOMAIN workers) = 2
    /\ reporter.state = "live"
    /\ reporter.position = 2
    /\ Len(failures) = 1

(***************************************************************************)
(* C15.  If the client cannot be built, check_bookmarks on a non-empty     *)
(* list returns HttpClientBuild before any leaf is dispatched: no request, *)
(* no progress reporter, no progress update, no failure record; and this   *)
(* is the only error check_bookmarks returns.                              *)
(***************************************************************************)
C15_ClientBuildFailureAborts ==
    /\ client.state = "failed" =>
         /\ bookmarks # <<>>
         /\ pc \in {"returned", "run_done", "run_failed"}
         /\ verdict = ErrVerdict("HttpClientBuild")
         /\ reporter = NoReporter
         /\ \A idx \in DOMAIN workers : workers[idx] = [pc |-> "idle", leaf |-> 0]
         /\ \A i \in DOMAIN leaves :
               /\ leaves[i].state = "pending"
               /\ leaves[i].requests = 0
               /\ leaves[i].outcome = NoFailure
         /\ failures = <<>>
         /\ report = NoFailureReport
    /\ verdict.tag = "Err" =>
         (verdict.err = "HttpClientBuild" /\ client.state = "failed")

\* the build failed on a list of two leaves and the caller got the error
C15_Witness ==
    /\ pc = "run_failed"
    /\ Len(bookmarks) = 2
    /\ client = [state |-> "failed", builds |-> 1]
    /\ verdict = ErrVerdict("HttpClientBuild")
    /\ reporter.state = "none"

(***************************************************************************)
(* C16.  The target set built from a report is exactly the union of the    *)
(* `url` fields of all entries of not_found, unauthorized and              *)
(* connection_errors: independent of the order of the entries and of the   *)
(* sequence an entry is in, duplicates collapsed, a sequence left out of   *)
(* the document counting as empty.                                         *)
(***************************************************************************)
SeqNames == {"not_found", "unauthorized", "connection_errors"}

UrlFields(doc) ==
    {u \in Urls : \E f \in SeqNames : \E k \in DOMAIN doc[f].entries :
                     /\ doc[f].present
                     /\ doc[f].entries[k].has_url
                     /\ doc[f].entries[k].url = u}

Reversed(xs) == [k \in 1..Len(xs) |-> xs[Len(xs) + 1 - k]]

\* the same entries in another order: every sequence reversed, and the
\* sequences rotated
Reordered(doc) ==
    ReportDoc(ReportSeq(doc.connection_errors.present, Reversed(doc.connection_errors.entries)),
              ReportSeq(doc.not_found.present, Reversed(doc.not_found.entries)),
              ReportSeq(doc.unauthorized.present, Reversed(doc.unauthorized.entries)))

C16_TargetsAreUnionOfUrls ==
    pc = "targets_done" =>
        /\ targets = UrlFields(report_file)
        /\ into_targets(FailureReport(Reordered(report_file))) = targets

\* the same url in two sequences, the third sequence left out: one target
C16_Witness ==
    /\ pc = "targets_done"
    /\ report_file.not_found = ReportSeq(TRUE, <<FailureEntry(TRUE, "a")>>)
    /\ report_file.unauthorized = ReportSeq(FALSE, <<>>)
    /\ report_file.connection_errors = ReportSeq(TRUE, <<FailureEntry(TRUE, "a")>>)
    /\ targets = {"a"}

(***************************************************************************)
(* C17.  clean_failures with a report path that does not exist returns     *)
(* removed = 0 and no backup path, creates no backup file and neither      *)
(* reads nor modifies the bookmarks file; a report that yields an empty    *)
(* target set likewise returns the default result without a backup.        *)
(***************************************************************************)
NothingToClean ==
    \/ report_file = NoReport
    \/ report_file.state = "yaml" /\ UrlFields(report_file) = {}

C17_NoReportOrNoTargetsTouchesNothing ==
    NothingToClean =>
        /\ pc \in {"clean_start", "clean_read_report", "clean_done"}
        /\ backup_file = NoFile
        /\ bookmarks_file = file0
        /\ data = Null /\ tree0 = Null /\ removed = 0
        /\ pc = "clean_done" => result = OkResult(0, "None")
        /\ (report_file = NoReport /\ pc = "clean_done") => targets = {}

\* no report file: the call returned the default result, nothing was copied
C17_Witness ==
    /\ pc = "clean_done"
    /\ report_file = NoReport
    /\ bookmarks_file.state = "json"
    /\ bookmarks_file = file0
    /\ backup_file = NoFile
    /\ result = OkResult(0, "None")

(***************************************************************************)
(* C18.  The root passed to remove is never removed, whatever its shape:   *)
(* the tree after remove still has that root (same kind of value, its own  *)
(* scalar fields intact), and a root that is itself a leaf with url in T   *)
(* stays as it was; only descendants are excised.                          *)
(***************************************************************************)
ScalarEntries(node) ==
    IF node.k = "obj"
    THEN {e \in Range(node.items) : e.val.k \in {"str", "null"}}
    ELSE {}

C18_RootIsNeverRemoved ==
    pc \in {"removed", "removed_again"} =>
        /\ data.k = tree0.k
        /\ ScalarEntries(data) = ScalarEntries(tree0)
        /\ tree0.k \in {"str", "null"} => data = tree0
        /\ IsLeaf(tree0) => (IsLeaf(data) /\ FieldStr(data, "url") = FieldStr(tree0, "url"))
        /\ TargetLeaf(tree0, targets) => data = tree0

\* the root is a leaf with url in T that has a child leaf with url in T
C18_Witness ==
    /\ pc = "removed"
    /\ TargetLeaf(tree0, targets)
    /\ \E p \in PathsOf(tree0) : p # <<>> /\ TargetLeaf(NodeAt(tree0, p), targets)
    /\ data = tree0
    /\ removed = 1

(***************************************************************************)
(* C19.  As claimed: extract returns an empty sequence for any node that   *)
(* lacks both the leaf discriminator (type = "url") and a children field.  *)
(***************************************************************************)
HasChildren(node) ==
    node.k = "obj" /\ \E i \in 1..Len(node.items) : node.items[i].key = "children"

PlainNode(node) == ~IsLeaf(node) /\ ~HasChildren(node)

C19_AsClaimed ==
    (pc = "extracted" /\ tree0.k = "obj" /\ PlainNode(tree0)) => collected = <<>>

(***************************************************************************)
(* C19, amended.  For a node that lacks both the discriminator and a       *)
(* children field, extract returns what it finds in the node's other       *)
(* fields (for an array: its elements), in order; the result is empty if   *)
(* and only if no leaf with a string name and url is reached through them, *)
(* in particular for a scalar and for an object whose fields are scalars.  *)
(***************************************************************************)
C19_PlainNodeYieldsItsFieldsLeaves ==
    (pc = "extracted" /\ PlainNode(tree0)) =>
        /\ collected =
             Flatten([i \in 1..Len(tree0.items) |->
                         extract_bookmarks(ChildAt(tree0, i))])
        /\ collected = <<>> <=>
             ~\E p \in PathsOf(tree0) :
                 Walked(tree0, p) /\ NamedLeaf(NodeAt(tree0, p))
        /\ (\A i \in 1..Len(tree0.items) : ChildAt(tree0, i).k \in {"str", "null"})
              => collected = <<>>

\* an object without type and children whose other field holds a leaf
C19_Witness ==
    /\ pc = "extracted"
    /\ tree0.k = "obj"
    /\ PlainNode(tree0)
    /\ Len(tree0.items) = 1
    /\ tree0.items[1].key = "bookmark_bar"
    /\ NamedLeaf(tree0.items[1].val)
    /\ collected = <<Bookmark("n", "a")>>

(***************************************************************************)
(* C20.  As claimed: when a leaf node has sub-fields holding nodes,        *)
(* extract emits the leaf and every leaf (node with type "url") found      *)
(* below it.                                                               *)
(***************************************************************************)
\* the node has a field holding an array or an object
HasSubNodes(node) ==
    node.k = "obj" /\ \E i \in 1..Len(node.items) : node.items[i].val.k \in {"arr", "obj"}

\* the positions of tree the traversal reaches that hold a leaf with sub-nodes
NestingLeaves(tree) ==
    {p \in PathsOf(tree) :
        Walked(tree, p) /\ IsLeaf(NodeAt(tree, p)) /\ HasSubNodes(NodeAt(tree, p))}

C20_AsClaimed ==
    pc = "extracted" =>
        \A p \in NestingLeaves(tree0) :
            LET node == NodeAt(tree0, p)
            IN  Len(extract_bookmarks(node))
                  = Cardinality({q \in PathsOf(node) :
                                    Walked(node, q) /\ IsLeaf(NodeAt(node, q))})

(***************************************************************************)
(* C20, amended.  When a leaf with a string name and url has sub-fields    *)
(* holding nodes, extract emits that leaf first and then every node with   *)
(* type "url" and a string name and url that the traversal reaches below   *)
(* it (children array first, then the other fields), without failing: the  *)
(* leaf precedes all of its descendants, and the whole run of them stands  *)
(* together in the output.                                                 *)
(***************************************************************************)
C20_LeafPrecedesItsDescendants ==
    pc = "extracted" =>
        \A p \in NestingLeaves(tree0) :
            LET node == NodeAt(tree0, p)
                out == extract_bookmarks(node)
                below == {q \in PathsOf(node) :
                             q # <<>> /\ Walked(node, q) /\ NamedLeaf(NodeAt(node, q))}
            IN  NamedLeaf(node) =>
                  /\ Len(out) = 1 + Cardinality(below)
                  /\ Head(out) = Bookmark(FieldStr(node, "name"), FieldStr(node, "url"))
                  /\ Tail(out) = Tail(PreOrder(node))
                  /\ \E k \in 1..Len(collected) :
                        /\ k + Len(out) - 1 <= Len(collected)
                        /\ SubSeq(collected, k, k + Len(out) - 1) = out

\* the root is a leaf "a" whose children array holds the leaf "b"
C20_Witness ==
    /\ pc = "extracted"
    /\ NamedLeaf(tree0)
    /\ HasChildren(tree0)
    /\ collected = <<Bookmark("n", "a"), Bookmark("n", "b")>>

(***************************************************************************)
(* C21.  For every leaf a pool thread processes the events come in this    *)
(* order: the thread sets its own slot to "<name> -> <url>", then the      *)
(* request is issued and completes, then the overall counter goes up by    *)
(* exactly one, then the slot is reset to "idle"; when all threads have    *)
(* finished every slot reads "idle".                                       *)
(***************************************************************************)
Label(i) == bookmarks[i].name \o " -> " \o bookmarks[i].url

DoneLeaves == Cardinality({i \in DOMAIN leaves : leaves[i].state = "done"})

C21_Step ==
    LET slots == DOMAIN reporter.messages \cap DOMAIN reporter'.messages
    IN  \* a request is issued under the label of its leaf, before the count
        /\ \A i \in DOMAIN leaves :
              leaves'[i].requests # leaves[i].requests =>
                  /\ leaves[i].requests = 0
                  /\ \E idx \in slots :
                        /\ workers[idx].leaf = i
                        /\ reporter.messages[idx] = Label(i)
                  /\ reporter' = reporter
        \* the answer comes in for a leaf whose request is out, before the
        \* count
        /\ \A i \in DOMAIN leaves :
              leaves'[i].sent # leaves[i].sent =>
                  /\ leaves[i].requests = 1
                  /\ leaves[i].sent = NoResponse
                  /\ \E idx \in slots :
                        /\ workers[idx].leaf = i
                        /\ reporter.messages[idx] = Label(i)
                  /\ reporter' = reporter
        \* the counter moves by one, for an answered leaf still labelled
        /\ reporter'.position # reporter.position =>
              /\ reporter'.position = reporter.position + 1
              /\ reporter'.messages = reporter.messages
              /\ \E idx \in slots :
                    /\ workers[idx].leaf \in DOMAIN leaves
                    /\ Answered(workers[idx].leaf)
                    /\ leaves[workers[idx].leaf].state # "done"
                    /\ reporter.messages[idx] = Label(workers[idx].leaf)
                    /\ workers'[idx] # workers[idx]
        /\ \A idx \in slots :
              \* a slot is set to the label of a leaf not yet requested
              /\ (reporter.messages[idx] = "idle" /\ reporter'.messages[idx] # "idle") =>
                    /\ workers'[idx].leaf \in DOMAIN leaves
                    /\ reporter'.messages[idx] = Label(workers'[idx].leaf)
                    /\ leaves'[workers'[idx].leaf].requests = 0
              \* a slot is reset after the request and the count of its leaf
              /\ (reporter.messages[idx] # "idle" /\ reporter'.messages[idx] = "idle") =>
                    /\ Answered(workers[idx].leaf)
                    /\ leaves[workers[idx].leaf].requests = 1
                    /\ reporter.position > DoneLeaves
                    /\ reporter'.position = reporter.position

C21_State ==
    /\ \A idx \in DOMAIN reporter.messages :
          IF workers[idx].leaf \in DOMAIN leaves
          THEN reporter.messages[idx] = Label(workers[idx].leaf)
          ELSE reporter.messages[idx] = "idle"
    /\ Mapped => \A idx \in DOMAIN reporter.messages : reporter.messages[idx] = "idle"

C21_EventsInOrder == [][C21_Step]_vars /\ []C21_State

\* thread 1 shows the label of leaf 2, answered and counted but not yet
\* reset; thread 0 has finished leaf 1 and reads idle
C21_Witness ==
    /\ pc = "dispatch"
    /\ Len(bookmarks) = 2
    /\ DOMAIN reporter.messages = {0, 1}
    /\ reporter.messages[0] = "idle"
    /\ reporter.messages[1] = "A -> b"
    /\ bookmarks[2] = Bookmark("A", "b")
    /\ leaves[1].state = "done"
    /\ leaves[2].requests = 1
    /\ reporter.position = 2

(***************************************************************************)
(* C22.  A worker message update (worker_start / worker_finish) with index *)
(* i changes only slot i and leaves the overall counter and every other    *)
(* slot unchanged; with an index outside 0..worker_count it changes        *)
(* nothing and raises no error.  During check_bookmarks each thread only   *)
(* writes the slot with its own thread index, so no two threads write the  *)
(* same slot.                                                              *)
(***************************************************************************)
\* a call made directly on the handle: this step made the call `call'`
C22_CallStep ==
    (pc = "handle_ready" /\ call'.op \in {"worker_start", "worker_finish"}) =>
        /\ pc' = "handle_ready"
        /\ reporter'.position = reporter.position
        /\ reporter'.total = reporter.total
        /\ reporter'.state = reporter.state
        /\ DOMAIN reporter'.messages = DOMAIN reporter.messages
        /\ \A j \in DOMAIN reporter.messages :
              j # call'.idx => reporter'.messages[j] = reporter.messages[j]
        /\ call'.idx \in DOMAIN reporter.messages =>
              reporter'.messages[call'.idx] =
                  (IF call'.op = "worker_start" THEN call'.message ELSE "idle")
        /\ call'.idx \notin DOMAIN reporter.messages => reporter' = reporter

\* inside a run: a slot changes only in a step of the thread with that index
C22_RunStep ==
    pc = "dispatch" =>
        \A idx \in DOMAIN reporter.messages :
            reporter'.messages[idx] # reporter.messages[idx] =>
                /\ workers'[idx] # workers[idx]
                /\ \A j \in DOMAIN workers \ {idx} :
                      /\ workers'[j] = workers[j]
                      /\ reporter'.messages[j] = reporter.messages[j]
                /\ reporter'.position = reporter.position

C22_MessageUpdateTouchesOwnSlotOnly == [][C22_CallStep /\ C22_RunStep]_vars

\* worker_start was called with an index past the last slot of a reporter
\* with one worker after that slot was set: nothing changed
C22_Witness ==
    /\ pc = "handle_ready"
    /\ call = HandleCall("worker_start", 1, "A -> b")
    /\ DOMAIN reporter.messages = {0}
    /\ reporter.messages[0] = "A -> a"
    /\ reporter.position = 1
    /\ reporter.state = "live"

(***************************************************************************)
(* C23.  In every reachable state of a verification run the overall        *)
(* counter is between 0 and total (the number of leaves), it never         *)
(* decreases, and each increment raises it by exactly 1.                   *)
(***************************************************************************)
C23_Bounds ==
    /\ reporter.position >= 0
    /\ reporter.position <= reporter.total
    /\ reporter.state # "none" => reporter.total = Len(bookmarks)

C23_Step ==
    /\ reporter'.position >= reporter.position
    /\ reporter'.position # reporter.position =>
          reporter'.position = reporter.position + 1

C23_CounterWithinTotal == []C23_Bounds /\ [][C23_Step]_vars

\* the counter stands at 1 of 2 while the second leaf is in flight
C23_Witness ==
    /\ pc = "dispatch"
    /\ reporter.total = 2
    /\ reporter.position = 1
    /\ leaves[1].state = "taken"
    /\ leaves[2].state = "done"

(***************************************************************************)
(* C24.  In every verification run over a non-empty leaf list that gets    *)
(* past setup (the client is built, the reporter exists) finish is called  *)
(* exactly once, by the owner and not by a pool thread, and only after     *)
(* every thread has completed all of its leaves: no increment and no       *)
(* message update occurs after finish.  A run that fails in setup has no   *)
(* reporter to finish.                                                     *)
(***************************************************************************)
C24_State ==
    /\ reporter.finishes <= 1
    /\ reporter.state = "finished" <=> reporter.finishes = 1
    /\ reporter.state = "finished" =>
          /\ pc \in {"return", "returned", "run_done", "run_failed"}
          /\ \A idx \in DOMAIN workers : workers[idx] = [pc |-> "idle", leaf |-> 0]
          /\ \A i \in DOMAIN leaves : leaves[i].state = "done"
          /\ reporter.position = Len(bookmarks)
    /\ (bookmarks # <<>> /\ client.state = "built" /\ pc \in {"returned", "run_done", "run_failed"})
          => reporter.finishes = 1
    /\ client.state # "built" => reporter.finishes = 0

C24_Step ==
    /\ reporter'.finishes # reporter.finishes =>
          /\ pc = "finish"
          /\ workers' = workers
          /\ leaves' = leaves
    /\ reporter.state = "finished" => reporter' = reporter

C24_FinishOnceAfterAllWorkers == []C24_State /\ [][C24_Step]_vars

\* C24 as stated: every run over a non-empty list that has come back has
\* called finish exactly once.  A run whose build_client fails comes back
\* with no reporter created and no finish call.
C24_AsClaimed ==
    (bookmarks # <<>> /\ pc \in {"returned", "run_done", "run_failed"}) =>
        reporter.finishes = 1

\* a run over two leaves on two threads returned; the reporter was finished
\* once, with both leaves counted
C24_Witness ==
    /\ pc = "returned"
    /\ Len(bookmarks) = 2
    /\ Cardinality(DOMAIN workers) = 2
    /\ verdict.tag = "Ok"
    /\ reporter.state = "finished"
    /\ reporter.finishes = 1
    /\ reporter.position = 2

(***************************************************************************)
(* C25.  extract and remove agree on conformant trees: for every tree G    *)
(* whose root is not a leaf, whose leaves all carry string name and url    *)
(* fields and have no node-valued sub-fields, and for every target set T,  *)
(* extract(remove(G, T)) equals extract(G) with exactly the leaves whose   *)
(* url is in T deleted, in the same relative order, and the removed count  *)
(* equals length(extract(G)) - length(extract(remove(G, T))).              *)
(***************************************************************************)
Conformant(tree) ==
    /\ ~IsLeaf(tree)
    /\ \A p \in LeafPaths(tree) :
          /\ NamedLeaf(NodeAt(tree, p))
          /\ ~HasSubNodes(NodeAt(tree, p))

C25_ExtractAndRemoveAgree ==
    (pc = "removed_extracted" /\ Conformant(tree0)) =>
        LET all == extract_bookmarks(tree0)
        IN  /\ collected = SelectSeq(all, LAMBDA b : b.url \notin targets)
            /\ removed = Len(all) - Len(collected)

\* a conformant tree with leaf b in its children array and leaf a under
\* another field; T = {a} leaves b alone
C25_Witness ==
    /\ pc = "removed_extracted"
    /\ Conformant(tree0)
    /\ tree0.k = "obj"
    /\ targets = {"a"}
    /\ extract_bookmarks(tree0) = <<Bookmark("n", "b"), Bookmark("n", "a")>>
    /\ removed = 1
    /\ collected = <<Bookmark("n", "b")>>
    /\ data # tree0

(***************************************************************************)
(* C26.  In clean_failures the bookmarks file is written only when         *)
(* removed > 0, and every write of the bookmarks file is preceded, in the  *)
(* same call, by a completed backup copy of the original file; if the      *)
(* backup copy fails, the call returns an error and the bookmarks file is  *)
(* unchanged.                                                              *)
(***************************************************************************)
C26_State ==
    /\ bookmarks_file # file0 => (removed > 0 /\ backup_file = file0)
    /\ backup_file # file0 => bookmarks_file = file0
    /\ pc \in {"clean_read_bookmarks", "clean_remove", "clean_write", "clean_return"}
          => backup_file = file0
    /\ (pc = "clean_done" /\ result.tag = "Ok" /\ result.removed > 0)
          => backup_file = file0

C26_Step ==
    \* a write (successful or failed half-way) of the bookmarks file
    /\ (pc = "clean_write" /\ pc' # "clean_write" /\ removed > 0) =>
          backup_file = file0
    /\ bookmarks_file' # bookmarks_file =>
          /\ pc = "clean_write"
          /\ removed > 0
          /\ backup_file = file0
          /\ backup_file' = backup_file
    /\ (pc = "clean_write" /\ removed = 0) => bookmarks_file' = bookmarks_file
    \* the backup step either completes the copy and goes on, or ends the
    \* call with an error and the bookmarks file as it was
    /\ (pc = "clean_backup" /\ pc' # "clean_backup") =>
          \/ /\ pc' = "clean_read_bookmarks"
             /\ backup_file' = file0
             /\ result' = result
          \/ /\ pc' = "clean_done"
             /\ result' = ErrResult("Io")
             /\ bookmarks_file' = file0

C26_WriteOnlyAfterBackup == []C26_State /\ [][C26_Step]_vars

\* a leaf was removed and the file rewritten; the backup holds the file as
\* it was found
C26_Witness ==
    /\ pc = "clean_done"
    /\ result.tag = "Ok"
    /\ result.removed = 1
    /\ file0.state = "json"
    /\ bookmarks_file # file0
    /\ bookmarks_file.value # file0.value
    /\ backup_file = file0

====
